---- MODULE Spec2Model ----
(***************************************************************************)
(* A model of the WebRTC demo's signalling layer:                          *)
(*   - the signal relay (server/rtc.ts, src/unnamed/part_000): the         *)
(*     registry `connections` and the handlers for connection, message     *)
(*     and close;                                                          *)
(*   - the client (src/src/client/rtc.ts, class WebRTCClient): its private *)
(*     fields, its public calls, its socket and transport callbacks and    *)
(*     the suspended async functions between their awaits.                 *)
(*                                                                         *)
(* The RTCPeerConnection, RTCDataChannel and the browser WebSocket are     *)
(* external: the model keeps, for each, what the code can observe of it    *)
(* and the calls the code makes on it, and lets every pending call         *)
(* either resolve or reject.                                               *)
(***************************************************************************)
EXTENDS Integers, Sequences, FiniteSets, TLC

\* ------------------------------------------------------------------ bounds
MaxSock == 3        \* relay: connections accepted
MaxWs == 3          \* client: WebSockets created
MaxConn == 2        \* client: RTCPeerConnections open or still held at once
MaxSrd == 2         \* client: setRemoteDescription calls on one transport

\* ------------------------------------------------------------- value sets
Socks == 1..MaxSock
UuidPool == <<"a1", "b1", "c1", "d1", "e1", "f1">>
Ids == {UuidPool[i] : i \in 1..3}
Names == {"Alice", "Bob"}
Versions == {"v1", "v2"}
Candidates == {"k1", "k2"}
Clients == {"A", "B"}
Peers == [id : Ids, name : Names]
Wss == 1..MaxWs
Conns == 1..MaxConn

NoFrame == [type |-> "none"]
NoPeer == [id |-> "", name |-> ""]

\* ----------------------------------------------------------------- state
VARIABLES
    \* relay (part_000)
    rstate,         \* socket -> "none" | "open" | "closed" (the relay's view)
    connections,    \* Map<WebSocket, Peer>, in insertion order
    microtasks,     \* identify handlers suspended at `await Promise.all`
    outbox,         \* the frames the handler just run has sent: <<[to, frame]>>
    unregistered,   \* ids of the records removed by a close so far
    \* client (client/rtc.ts), each a function of the client
    closed,         \* #closed
    clientVersion,  \* #version, "" until a ready frame sets it
    id,             \* #id, "" until a ready frame sets it
    name,           \* #name
    peerConnection, \* #peerConnection: index into pcs, 0 is undefined
    peers,          \* #peers: a set of Peer records, one per id
    reconnectTimer, \* #reconnectTimer: the number of its timeouts that are pending
    socket,         \* #socket: index into ws, 0 is undefined
    stream,         \* #stream: TRUE while a MediaStream is held
    ws,             \* the WebSockets created: readyState of each
    pcs,            \* the PeerConnection objects created, with their transport
    tasks,          \* async functions suspended at an await on a transport
    sent,           \* frames the step just taken gave to socket.send
    emitted,        \* events the step just taken emitted
    \* the frames in flight between each client and the relay
    wire,
    \* the step just taken
    last

relayVars == <<rstate, connections, microtasks, outbox, unregistered>>
linkVars == <<closed, clientVersion, id, name, reconnectTimer, socket, stream, ws>>
sessionVars == <<peerConnection, pcs, tasks>>
clientVars == <<closed, clientVersion, id, name, peerConnection, peers, reconnectTimer,
                socket, stream, ws, pcs, tasks, sent, emitted>>
vars == <<rstate, connections, microtasks, outbox, unregistered,
          closed, clientVersion, id, name, peerConnection, peers, reconnectTimer,
          socket, stream, ws, pcs, tasks, sent, emitted, wire, last>>

Mark(who, op, sock, frame) == [who |-> who, op |-> op, sock |-> sock, frame |-> frame]

\* ---------------------------------------------------------------- frames
RejectMessageReversed(s, t) == [type |-> "reject", data |-> [source |-> t, target |-> s]]
OfferMessageReversed(s, t) == [type |-> "offer", data |-> [source |-> t, target |-> s]]
ReadyMessage(v, i) == [type |-> "ready", version |-> v, id |-> i]
IdentifyMessage(p) == [type |-> "identify", data |-> p]
PeerMessage(p, remove) ==
    [type |-> "peer", data |-> [id |-> p.id, name |-> p.name, remove |-> remove]]
OfferMessage(s, t) == [type |-> "offer", data |-> [source |-> s, target |-> t]]
AcceptMessage(s, t) == [type |-> "accept", data |-> [source |-> s, target |-> t]]
RejectMessage(s, t) == [type |-> "reject", data |-> [source |-> s, target |-> t]]
IceCandidateMessage(i, t, c) ==
    [type |-> "icecandidate", data |-> [id |-> i, target |-> t, candidate |-> c]]

\* The frames a connection asks the relay to route, as the client builds them
RoutedFrames(source) == {OfferMessage(source, t) : t \in Ids}

\* =================================================================== relay
version == "v1"

\* crypto.randomUUID(): an id no other connection was given
randomUUIDRepeats(s) == UuidPool[1]

randomUUID(s) == UuidPool[s]

\* send(socket, message): socket?.send(JSON.stringify(message)); 0 is undefined
send(sock, message) ==
    IF sock = 0 THEN <<>> ELSE <<[to |-> sock, frame |-> message]>>

RECURSIVE Flatten(_)
Flatten(ss) == IF ss = <<>> THEN <<>> ELSE Head(ss) \o Flatten(Tail(ss))

connectionsHas(sock) == \E i \in 1..Len(connections) : connections[i].socket = sock

connectionsGet(sock) ==
    IF connectionsHas(sock)
    THEN connections[CHOOSE i \in 1..Len(connections) : connections[i].socket = sock].client
    ELSE NoPeer

\* Map.set: an existing key keeps its place, a new key goes last
connectionsSetAppends(sock, client) ==
    Append(connections, [socket |-> sock, client |-> client])

connectionsSet(sock, client) ==
    IF connectionsHas(sock)
    THEN [i \in 1..Len(connections) |->
            IF connections[i].socket = sock
            THEN [socket |-> sock, client |-> client]
            ELSE connections[i]]
    ELSE Append(connections, [socket |-> sock, client |-> client])

connectionsDeleteForgotten(sock) == connections

connectionsDelete(sock) == SelectSeq(connections, LAMBDA e : e.socket # sock)

getConnectionOfAny(clientId) ==
    IF connections # <<>> THEN connections[1].socket ELSE 0

getConnection(clientId) ==
    IF \E i \in 1..Len(connections) : connections[i].client.id = clientId
    THEN LET first == CHOOSE i \in 1..Len(connections) :
                        /\ connections[i].client.id = clientId
                        /\ \A j \in 1..(i - 1) : connections[j].client.id # clientId
         IN connections[first].socket
    ELSE 0

notifyClient(sock, client, other, remove) == send(sock, PeerMessage(other, remove))

\* The sends of the identify case, in the order the code issues them
IdentifySnapshotAlways(sock, client) ==
    Flatten([i \in 1..Len(connections) |->
                notifyClient(sock, client, connections[i].client, FALSE)])

IdentifySnapshotInverted(sock, client) ==
    IF connectionsHas(sock)
    THEN Flatten([i \in 1..Len(connections) |->
                    notifyClient(sock, client, connections[i].client, FALSE)])
    ELSE <<>>

IdentifySnapshot(sock, client) ==
    IF ~connectionsHas(sock)
    THEN Flatten([i \in 1..Len(connections) |->
                    notifyClient(sock, client, connections[i].client, FALSE)])
    ELSE <<>>

IdentifyAnnounceAll(sock, client) ==
    Flatten([i \in 1..Len(connections) |->
                notifyClient(connections[i].socket, connections[i].client, client, FALSE)])

IdentifyAnnounce(sock, client) ==
    Flatten([i \in 1..Len(connections) |->
                IF connections[i].client.id # client.id
                THEN notifyClient(connections[i].socket, connections[i].client, client, FALSE)
                ELSE <<>>])

\* Node runs a handler's microtasks (the continuations of its awaits on
\* already-settled promises) before it starts the next I/O callback.
Drained == microtasks = <<>>

\* server.on("connection")
RelayConnection(s) ==
    /\ UNCHANGED clientVars
    /\ Drained
    /\ rstate[s] = "none"
    /\ rstate' = [rstate EXCEPT ![s] = "open"]
    /\ outbox' = send(s, ReadyMessage(version, randomUUID(s)))
    /\ last' = Mark("relay", "connection", s, NoFrame)
    /\ UNCHANGED <<connections, microtasks, unregistered>>

\* handleMessage, case "identify", up to `await Promise.all(notifications)`
RelayIdentify(s, client) ==
    /\ UNCHANGED clientVars
    /\ Drained
    /\ rstate[s] = "open"
    /\ outbox' = IdentifySnapshot(s, client) \o IdentifyAnnounce(s, client)
    /\ microtasks' = Append(microtasks, [socket |-> s, client |-> client])
    /\ last' = Mark("relay", "identify", s, IdentifyMessage(client))
    /\ UNCHANGED <<rstate, connections, unregistered>>

\* handleMessage, case "identify", after the await: connections.set
RelayCommit ==
    /\ UNCHANGED clientVars
    /\ microtasks # <<>>
    /\ connections' = connectionsSet(Head(microtasks).socket, Head(microtasks).client)
    /\ microtasks' = Tail(microtasks)
    /\ outbox' = <<>>
    /\ last' = Mark("relay", "commit", Head(microtasks).socket,
                    IdentifyMessage(Head(microtasks).client))
    /\ UNCHANGED <<rstate, unregistered>>

\* handleMessage, default case
RelayRoute(s, msg) ==
    /\ UNCHANGED clientVars
    /\ Drained
    /\ rstate[s] = "open"
    /\ outbox' = send(getConnection(msg.data.target), msg)
    /\ last' = Mark("relay", "route", s, msg)
    /\ UNCHANGED <<rstate, connections, microtasks, unregistered>>

\* socket.on("close"): each `await notifyClient` resumes in a microtask of
\* the same callback, so the loop runs to its end before any other handler
RelayClose(s) ==
    /\ UNCHANGED clientVars
    /\ Drained
    /\ rstate[s] = "open"
    /\ rstate' = [rstate EXCEPT ![s] = "closed"]
    /\ IF connectionsHas(s)
       THEN LET client == connectionsGet(s)
                rest == connectionsDelete(s)
            IN /\ connections' = rest
               /\ unregistered' = unregistered \cup {client.id}
               /\ outbox' = Flatten([i \in 1..Len(rest) |->
                            notifyClient(rest[i].socket, rest[i].client, client, TRUE)])
       ELSE /\ UNCHANGED <<connections, unregistered>>
            /\ outbox' = <<>>
    /\ last' = Mark("relay", "close", s, NoFrame)
    /\ UNCHANGED microtasks

RelayInit ==
    /\ rstate = [s \in Socks |-> "none"]
    /\ connections = <<>>
    /\ microtasks = <<>>
    /\ outbox = <<>>
    /\ unregistered = {}

\* ================================================================== client
\* A PeerConnection object (rtc.ts 16-21) and what the code can see of its
\* RTCPeerConnection: whether close() was called on it, whether its
\* remoteDescription is set, and the calls made on it.
NoPc ==
    [state |-> "none",              \* "none" | "open" | "closed"
     peer |-> NoPeer,               \* peer
     remoteDescription |-> FALSE,   \* connection.remoteDescription is set
     localDescription |-> "none",   \* connection.localDescription: "offer" | "answer"
     srd |-> 0,                     \* calls of connection.setRemoteDescription
     arrived |-> <<>>,              \* candidates #addIceCandidate took, in order
     added |-> <<>>,                \* calls of connection.addIceCandidate, in order
     iceCandidates |-> <<>>,        \* iceCandidates
     onicecandidate |-> FALSE,      \* connection.onicecandidate is assigned
     gathered |-> {}]               \* candidates the transport has produced

Task(fn, at, c) == [fn |-> fn, at |-> at, conn |-> c]
Event(e, d) == [event |-> e, data |-> d]
Call(op, arg) == [type |-> op, data |-> arg]

RemoveAt(seq, i) == [j \in 1..(Len(seq) - 1) |-> IF j < i THEN seq[j] ELSE seq[j + 1]]

peersHas(a, i) == \E p \in peers[a] : p.id = i
peersGet(a, i) == CHOOSE p \in peers[a] : p.id = i
peersSetAdds(a, p) == peers[a] \cup {p}
peersSet(a, p) == {q \in peers[a] : q.id # p.id} \cup {p}
peersDeleteNone(a, i) == peers[a]
peersDelete(a, i) == {q \in peers[a] : q.id # i}

HasFreshConn(a) == \E c \in Conns : pcs[a][c].state = "none"
FreshConn(a) == CHOOSE c \in Conns :
    pcs[a][c].state = "none" /\ \A d \in 1..(c - 1) : pcs[a][d].state # "none"
HasFreshWs(a) == \E k \in Wss : ws[a][k] = "none"
FreshWs(a) == CHOOSE k \in Wss :
    ws[a][k] = "none" /\ \A j \in 1..(k - 1) : ws[a][j] # "none"

\* #sendToSignalServer: throws without a socket; WebSocket.send throws while
\* the socket is connecting; either way nothing is sent
sendToSignalServer(a, message) ==
    IF socket[a] # 0 /\ ws[a][socket[a]] = "open"
    THEN <<[sock |-> socket[a], frame |-> message]>>
    ELSE <<>>

\* socket?.close() of a WebSocket
wsClose(a, k) ==
    IF k # 0 /\ ws[a][k] \in {"connecting", "open"}
    THEN [ws[a] EXCEPT ![k] = "closing"]
    ELSE ws[a]

\* A closed transport is out of the client's reach (#peerConnection no
\* longer refers to it): only the functions suspended on it still hold it,
\* and all they do is empty its queue. When none holds it, it is collected
\* and its place is free again.
Held(c, ts) == \E i \in 1..Len(ts) : ts[i].conn = c
Forget(pc) == [NoPc EXCEPT !.state = "closed", !.iceCandidates = pc.iceCandidates]
Collect(ps, ts) ==
    [c \in Conns |-> CASE ps[c].state # "closed" -> ps[c]
                       [] Held(c, ts) -> Forget(ps[c])
                       [] OTHER -> NoPc]

\* #closeConnection
closeConnectionSilent(a) ==
    LET c == peerConnection[a]
    IN IF c = 0
       THEN /\ UNCHANGED <<pcs, peerConnection>>
            /\ emitted' = <<>>
       ELSE /\ pcs' = [pcs EXCEPT ![a] =
                          Collect([pcs[a] EXCEPT ![c].state = "closed"], tasks[a])]
            /\ peerConnection' = [peerConnection EXCEPT ![a] = 0]
            /\ emitted' = <<>>

closeConnection(a) ==
    LET c == peerConnection[a]
    IN IF c = 0
       THEN /\ UNCHANGED <<pcs, peerConnection>>
            /\ emitted' = <<>>
       ELSE /\ pcs' = [pcs EXCEPT ![a] =
                          Collect([pcs[a] EXCEPT ![c].state = "closed"], tasks[a])]
            /\ peerConnection' = [peerConnection EXCEPT ![a] = 0]
            /\ emitted' = <<Event("peerdisconnected", pcs[a][c].peer.id)>>

\* #createPeerConnection: the three throws that guard it
createPeerConnectionUnguarded(a, peerId) == stream[a] /\ peersHas(a, peerId)

createPeerConnectionWithoutStream(a, peerId) ==
    /\ peerConnection[a] = 0
    /\ peersHas(a, peerId)

createPeerConnectionAllowed(a, peerId) ==
    /\ stream[a]
    /\ peerConnection[a] = 0
    /\ peersHas(a, peerId)

\* #createPeerConnection: the PeerConnection it stores
createPeerConnection(a, peerId) ==
    [NoPc EXCEPT !.state = "open", !.peer = peersGet(a, peerId)]

\* invite(peerId), up to `await peerConnection.createOffer`
Invite(a, peerId) ==
    /\ last' = Mark(a, "invite", 0, Call("invite", [source |-> peerId]))
    /\ sent' = <<>>
    /\ emitted' = <<>>
    /\ IF createPeerConnectionAllowed(a, peerId)
       THEN /\ HasFreshConn(a)
            /\ pcs' = [pcs EXCEPT ![a][FreshConn(a)] = createPeerConnection(a, peerId)]
            /\ peerConnection' = [peerConnection EXCEPT ![a] = FreshConn(a)]
            /\ tasks' = [tasks EXCEPT ![a] =
                            Append(@, Task("invite", "createOffer", FreshConn(a)))]
       ELSE UNCHANGED sessionVars
    /\ UNCHANGED <<linkVars, peers, relayVars>>

\* accept(offer), up to `await connection.setRemoteDescription` in
\* #setRemoteDescription
Accept(a, source) ==
    /\ last' = Mark(a, "accept", 0, Call("accept", [source |-> source]))
    /\ sent' = <<>>
    /\ emitted' = <<>>
    /\ IF createPeerConnectionAllowed(a, source)
       THEN /\ HasFreshConn(a)
            /\ pcs' = [pcs EXCEPT ![a][FreshConn(a)] =
                          [createPeerConnection(a, source) EXCEPT !.srd = 1]]
            /\ peerConnection' = [peerConnection EXCEPT ![a] = FreshConn(a)]
            /\ tasks' = [tasks EXCEPT ![a] =
                            Append(@, Task("accept", "setRemoteDescription", FreshConn(a)))]
       ELSE UNCHANGED sessionVars
    /\ UNCHANGED <<linkVars, peers, relayVars>>

\* reject(offer)
Reject(a, source) ==
    /\ last' = Mark(a, "reject", 0, Call("reject", [source |-> source]))
    /\ sent' = sendToSignalServer(a, RejectMessage(id[a], source))
    /\ emitted' = <<>>
    /\ UNCHANGED <<linkVars, sessionVars, peers, relayVars>>

\* disconnect(): #sendToPeer throws without a peer connection
Disconnect(a) ==
    /\ last' = Mark(a, "disconnect", 0, Call("disconnect", [source |-> ""]))
    /\ sent' = <<>>
    /\ closeConnection(a)
    /\ UNCHANGED <<linkVars, tasks, peers, relayVars>>

\* channel.close() and connection.close(): a closed transport and its
\* channel deliver no further events
DeliversAfterClose(a, c) == pcs[a][c].state \in {"open", "closed"}

Delivers(a, c) == pcs[a][c].state = "open"

\* onconnectionstatechange of transport c, state "disconnected" or "failed"
ConnectionStateChange(a, c) ==
    /\ Delivers(a, c)
    /\ last' = Mark(a, "connectionstatechange", c, NoFrame)
    /\ sent' = <<>>
    /\ closeConnection(a)
    /\ UNCHANGED <<linkVars, tasks, peers, relayVars>>

\* channel.onmessage of transport c, whose channel opens once both
\* descriptions are set: #handlePeerMessage
PeerMessageTypes == {"chat", "disconnect"}

ChannelMessage(a, c, type) ==
    /\ Delivers(a, c)
    /\ pcs[a][c].remoteDescription
    /\ pcs[a][c].localDescription # "none"
    /\ last' = Mark(a, "peermessage", c, [type |-> type])
    /\ sent' = <<>>
    /\ IF type = "disconnect"
       THEN closeConnection(a)
       ELSE /\ emitted' = <<Event("chat", pcs[a][c].peer.id)>>
            /\ UNCHANGED <<pcs, peerConnection>>
    /\ UNCHANGED <<linkVars, tasks, peers, relayVars>>

\* ---------------------------------------------- suspended async functions
\* A pending call on an open transport resolves or rejects; on a closed one
\* it can only reject.
Outcomes(a, t) == IF pcs[a][t.conn].state = "open" THEN BOOLEAN ELSE {FALSE}

\* One turn of the loop of #setRemoteDescription (rtc.ts 523-530): the
\* PeerConnection after `iceCandidates.shift()` and the call of
\* connection.addIceCandidate
DrainPop(pc) ==
    [pc EXCEPT !.iceCandidates = SubSeq(@, 1, Len(@) - 1),
               !.added = Append(@, [candidate |-> pc.iceCandidates[Len(pc.iceCandidates)],
                                    queued |-> TRUE])]

DrainShift(pc) ==
    [pc EXCEPT !.iceCandidates = Tail(@),
               !.added = Append(@, [candidate |-> Head(pc.iceCandidates),
                                    queued |-> TRUE])]

\* The continuation of task i of client a when its awaited call settles
Settle(a, i, ok) ==
    LET t == tasks[a][i]
        c == t.conn
        rest == RemoveAt(tasks[a], i)
        at(step) == [tasks[a] EXCEPT ![i].at = step]
        \* the transport once the call has settled
        settled ==
            CASE t.at = "setRemoteDescription" /\ ok ->
                   [pcs[a][c] EXCEPT !.remoteDescription = TRUE]
              [] t.at = "setLocalDescription" /\ ok ->
                   [pcs[a][c] EXCEPT !.localDescription =
                                        IF t.fn = "invite" THEN "offer" ELSE "answer"]
              [] OTHER -> pcs[a][c]
        \* in the loop of #setRemoteDescription; a rejected addIceCandidate
        \* is caught there
        draining == (t.at = "setRemoteDescription" /\ ok) \/ t.at = "drain"
        shifting == draining /\ settled.iceCandidates # <<>>
        ts == CASE shifting -> at("drain")
                [] draining /\ ~shifting /\ t.fn = "accept" -> at("createAnswer")
                [] ~draining /\ t.at \in {"createOffer", "createAnswer"} /\ ok ->
                     at("setLocalDescription")
                \* the function returns, or throws what the call rejected with
                [] OTHER -> rest
        \* accept assigns onicecandidate of its own transport once it has
        \* sent the answer (rtc.ts 250-262); #connectToPeer assigns that of
        \* the transport #peerConnection then refers to (rtc.ts 407-423) and
        \* throws if there is none
        listening ==
            CASE t.fn = "accept" /\ t.at = "setLocalDescription" /\ ok
                     /\ sendToSignalServer(a, NoFrame) # <<>> -> c
              [] t.fn = "connectToPeer" /\ draining /\ ~shifting -> peerConnection[a]
              [] OTHER -> 0
        after == [pcs[a] EXCEPT ![c] = IF shifting THEN DrainShift(settled) ELSE settled]
    IN /\ ok \in Outcomes(a, t)
       /\ last' = Mark(a, "settle", c, Call(t.fn, [at |-> t.at, ok |-> ok]))
       /\ pcs' = [pcs EXCEPT ![a] =
                     Collect(IF listening = 0 THEN after
                             ELSE [after EXCEPT ![listening].onicecandidate = TRUE], ts)]
       /\ tasks' = [tasks EXCEPT ![a] = ts]
       /\ sent' = IF t.at = "setLocalDescription" /\ ok
                  THEN sendToSignalServer(a,
                          IF t.fn = "invite"
                          THEN OfferMessage(id[a], pcs[a][c].peer.id)
                          ELSE AcceptMessage(id[a], pcs[a][c].peer.id))
                  ELSE <<>>
       /\ emitted' = <<>>
       /\ UNCHANGED <<linkVars, peerConnection, peers, relayVars>>

\* The icecandidate event of transport c, for a candidate it has gathered
\* after its local description was set. The event is lost unless
\* onicecandidate is assigned; the handler sends the candidate to the peer
\* the transport was created for.
IceCandidateEvent(a, c, candidate) ==
    /\ pcs[a][c].state = "open"
    /\ pcs[a][c].localDescription # "none"
    /\ candidate \notin pcs[a][c].gathered
    /\ last' = Mark(a, "icecandidate", c, Call("icecandidate", [candidate |-> candidate]))
    /\ pcs' = [pcs EXCEPT ![a][c].gathered = @ \cup {candidate}]
    /\ sent' = IF pcs[a][c].onicecandidate
               THEN sendToSignalServer(a,
                       IceCandidateMessage(id[a], pcs[a][c].peer.id, candidate))
               ELSE <<>>
    /\ emitted' = <<>>
    /\ UNCHANGED <<linkVars, peerConnection, tasks, peers, relayVars>>

\* -------------------------------------------------- #handleServerMessage
\* case "peer"
HandlePeer(a, data) ==
    /\ IF data.remove
       THEN /\ peers' = [peers EXCEPT ![a] = peersDelete(a, data.id)]
            /\ emitted' = <<Event("peerremoved", data.id)>>
       ELSE /\ peers' = [peers EXCEPT ![a] =
                            peersSet(a, [id |-> data.id, name |-> data.name])]
            /\ emitted' = <<Event(IF peersHas(a, data.id) THEN "peerupdated"
                                                           ELSE "peeradded", data.id)>>
    /\ sent' = <<>>
    /\ UNCHANGED <<linkVars, sessionVars>>

\* case "offer"
HandleOffer(a, data) ==
    /\ emitted' = <<Event("offer", data.source)>>
    /\ sent' = <<>>
    /\ UNCHANGED <<linkVars, sessionVars, peers>>

\* #setRemoteDescription throws without a peer connection or for another
\* source
setRemoteDescriptionAllowed(a, source) ==
    /\ peerConnection[a] # 0
    /\ pcs[a][peerConnection[a]].peer.id = source

\* case "accept": #connectToPeer, up to the await in #setRemoteDescription
HandleAccept(a, data) ==
    /\ IF setRemoteDescriptionAllowed(a, data.source)
       THEN /\ pcs[a][peerConnection[a]].srd < MaxSrd
            /\ pcs' = [pcs EXCEPT ![a][peerConnection[a]].srd = @ + 1]
            /\ tasks' = [tasks EXCEPT ![a] =
                  Append(@, Task("connectToPeer", "setRemoteDescription", peerConnection[a]))]
       ELSE UNCHANGED <<pcs, tasks>>
    /\ emitted' = <<>>
    /\ sent' = <<>>
    /\ UNCHANGED <<linkVars, peerConnection, peers>>

\* case "reject"
HandleReject(a, data) ==
    /\ closeConnection(a)
    /\ sent' = <<>>
    /\ UNCHANGED <<linkVars, tasks, peers>>

\* #addIceCandidate accepts the candidate of the session's peer
addIceCandidateIgnoresId(a, data) == peerConnection[a] # 0

addIceCandidateAccepts(a, data) ==
    /\ peerConnection[a] # 0
    /\ pcs[a][peerConnection[a]].peer.id = data.id

\* A transport gathers each of its candidates once, so no candidate
\* arrives twice
FreshCandidate(a, candidate) ==
    \A c \in Conns :
        /\ \A i \in 1..Len(pcs[a][c].iceCandidates) : pcs[a][c].iceCandidates[i] # candidate
        /\ \A i \in 1..Len(pcs[a][c].added) : pcs[a][c].added[i].candidate # candidate

\* case "icecandidate": #addIceCandidate, up to its await
HandleIceCandidate(a, data) ==
    LET c == peerConnection[a]
    IN /\ FreshCandidate(a, data.candidate)
       /\ IF addIceCandidateAccepts(a, data)
          THEN IF pcs[a][c].remoteDescription
               \* the await of connection.addIceCandidate is in a try/catch
               \* and nothing follows it
               THEN pcs' = [pcs EXCEPT ![a][c].arrived = Append(@, data.candidate),
                                       ![a][c].added = Append(@, [candidate |-> data.candidate,
                                                                  queued |-> FALSE])]
               ELSE pcs' = [pcs EXCEPT ![a][c].arrived = Append(@, data.candidate),
                                       ![a][c].iceCandidates = Append(@, data.candidate)]
          ELSE UNCHANGED pcs
       /\ UNCHANGED tasks
       /\ emitted' = <<>>
       /\ sent' = <<>>
       /\ UNCHANGED <<linkVars, peerConnection, peers>>

\* location.reload(): the page and all it holds is gone, and the page's
\* script starts again with a new WebRTCClient
Reload(a) ==
    /\ closed' = [closed EXCEPT ![a] = FALSE]
    /\ clientVersion' = [clientVersion EXCEPT ![a] = ""]
    /\ id' = [id EXCEPT ![a] = ""]
    /\ reconnectTimer' = [reconnectTimer EXCEPT ![a] = 0]
    /\ socket' = [socket EXCEPT ![a] = 0]
    /\ stream' = [stream EXCEPT ![a] = FALSE]
    /\ ws' = [ws EXCEPT ![a] = [k \in Wss |-> IF ws[a][k] = "none" THEN "none" ELSE "closed"]]
    /\ peerConnection' = [peerConnection EXCEPT ![a] = 0]
    /\ peers' = [peers EXCEPT ![a] = {}]
    /\ pcs' = [pcs EXCEPT ![a] = [c \in Conns |-> NoPc]]
    /\ tasks' = [tasks EXCEPT ![a] = <<>>]
    /\ UNCHANGED name

\* case "ready": the version test
readyReloads(a, message) ==
    clientVersion[a] # "" /\ clientVersion[a] # message.version

\* case "ready": the identify frame
readyIdentify(a, message) == IdentifyMessage([id |-> message.id, name |-> name[a]])

\* case "ready"
HandleReady(a, message) ==
    IF readyReloads(a, message)
    THEN /\ Reload(a)
         /\ sent' = <<>>
         /\ emitted' = <<>>
    ELSE /\ clientVersion' = [clientVersion EXCEPT ![a] = message.version]
         /\ id' = [id EXCEPT ![a] = message.id]
         /\ sent' = sendToSignalServer(a, readyIdentify(a, message))
         /\ emitted' = <<>>
         /\ UNCHANGED <<closed, name, reconnectTimer, socket, stream, ws, sessionVars, peers>>

\* socket.onmessage of WebSocket k: #handleServerMessage
SocketMessage(a, k, message) ==
    /\ ws[a][k] = "open"
    /\ last' = Mark(a, "message", k, message)
    /\ CASE message.type = "peer" -> HandlePeer(a, message.data)
         [] message.type = "offer" -> HandleOffer(a, message.data)
         [] message.type = "accept" -> HandleAccept(a, message.data)
         [] message.type = "reject" -> HandleReject(a, message.data)
         [] message.type = "icecandidate" -> HandleIceCandidate(a, message.data)
         [] message.type = "ready" -> HandleReady(a, message)
    /\ UNCHANGED relayVars

\* ------------------------------------------------------ signal connection
\* clearTimeout(this.#reconnectTimer): the timeout of the stored handle, if
\* it is pending, is cancelled
clearTimeoutKeeps(pending) == pending

clearTimeout(pending) == IF pending > 0 THEN pending - 1 ELSE 0

\* #reconnectToSignalServer: the pending timeouts after it
reconnectToSignalServerWithoutClear(pending) == pending + 1

reconnectToSignalServer(pending) == clearTimeout(pending) + 1

\* #connectToSignalServer: the WebSockets after it, and #socket
connectToSignalServer(a, sockets) == [sockets EXCEPT ![FreshWs(a)] = "connecting"]

\* openStream, after `await getUserMedia`: closeStream, then connect
OpenStream(a) ==
    /\ HasFreshWs(a)
    /\ last' = Mark(a, "openStream", 0, NoFrame)
    /\ ws' = [ws EXCEPT ![a] = connectToSignalServer(a, wsClose(a, socket[a]))]
    /\ socket' = [socket EXCEPT ![a] = FreshWs(a)]
    /\ stream' = [stream EXCEPT ![a] = TRUE]
    /\ sent' = <<>>
    /\ emitted' = <<>>
    /\ UNCHANGED <<closed, clientVersion, id, name, reconnectTimer,
                   sessionVars, peers, relayVars>>

\* closeStream: #disconnectFromSignalServer, then drop the stream
CloseStream(a) ==
    /\ last' = Mark(a, "closeStream", 0, NoFrame)
    /\ ws' = [ws EXCEPT ![a] = wsClose(a, socket[a])]
    /\ socket' = [socket EXCEPT ![a] = 0]
    /\ stream' = [stream EXCEPT ![a] = FALSE]
    /\ sent' = <<>>
    /\ emitted' = <<>>
    /\ UNCHANGED <<closed, clientVersion, id, name, reconnectTimer,
                   sessionVars, peers, relayVars>>

\* close()
Close(a) ==
    /\ last' = Mark(a, "close", 0, NoFrame)
    /\ reconnectTimer' = [reconnectTimer EXCEPT ![a] = clearTimeout(@)]
    /\ closed' = [closed EXCEPT ![a] = TRUE]
    /\ ws' = [ws EXCEPT ![a] = wsClose(a, socket[a])]
    /\ peers' = [peers EXCEPT ![a] = {}]
    /\ socket' = [socket EXCEPT ![a] = 0]
    /\ stream' = [stream EXCEPT ![a] = FALSE]
    /\ sent' = <<>>
    /\ emitted' = <<>>
    /\ UNCHANGED <<clientVersion, id, name, sessionVars, relayVars>>

\* set name(value)
SetName(a, value) ==
    /\ last' = Mark(a, "name", 0, Call("name", [source |-> value]))
    /\ name' = [name EXCEPT ![a] = value]
    /\ sent' = IF value # name[a]
               THEN sendToSignalServer(a, IdentifyMessage([id |-> id[a], name |-> value]))
               ELSE <<>>
    /\ emitted' = <<>>
    /\ UNCHANGED <<closed, clientVersion, id, reconnectTimer, socket, stream, ws,
                   sessionVars, peers, relayVars>>

\* socket.onopen of WebSocket k
SocketOpen(a, k) ==
    /\ ws[a][k] = "connecting"
    /\ last' = Mark(a, "open", k, NoFrame)
    /\ ws' = [ws EXCEPT ![a][k] = "open"]
    /\ sent' = <<>>
    /\ emitted' = <<Event("connected", "")>>
    /\ UNCHANGED <<closed, clientVersion, id, name, reconnectTimer, socket, stream,
                   sessionVars, peers, relayVars>>

\* socket.onclose of WebSocket k: the connection failed, was closed by the
\* relay, or its close() has completed
SocketClose(a, k) ==
    /\ ws[a][k] \in {"connecting", "open", "closing"}
    /\ last' = Mark(a, "socketclose", k, NoFrame)
    /\ ws' = [ws EXCEPT ![a][k] = "closed"]
    /\ socket' = [socket EXCEPT ![a] = 0]
    /\ emitted' = <<Event("disconnected", "")>>
    /\ reconnectTimer' = [reconnectTimer EXCEPT ![a] =
                             IF ~closed[a] /\ stream[a]
                             THEN reconnectToSignalServer(@) ELSE @]
    /\ sent' = <<>>
    /\ UNCHANGED <<closed, clientVersion, id, name, stream,
                   sessionVars, peers, relayVars>>

\* the timeout of #reconnectToSignalServer fires: `if (this.#socket) return`
reconnectReturnsNever(a) == FALSE

reconnectReturns(a) == socket[a] # 0

ReconnectFire(a) ==
    /\ reconnectTimer[a] > 0
    /\ ~reconnectReturns(a) => HasFreshWs(a)
    /\ last' = Mark(a, "timeout", 0, NoFrame)
    /\ reconnectTimer' = [reconnectTimer EXCEPT ![a] = @ - 1]
    /\ IF reconnectReturns(a)
       THEN UNCHANGED <<ws, socket>>
       ELSE /\ ws' = [ws EXCEPT ![a] = connectToSignalServer(a, ws[a])]
            /\ socket' = [socket EXCEPT ![a] = FreshWs(a)]
    /\ sent' = <<>>
    /\ emitted' = <<>>
    /\ UNCHANGED <<closed, clientVersion, id, name, stream,
                   sessionVars, peers, relayVars>>

\* Nothing in flight: `up` holds the frames a client has sent that the relay
\* has not yet received, `down` those the relay has sent it, both in order
NoWire == [a \in Clients |-> [up |-> <<>>, down |-> <<>>]]

\* new WebRTCClient(name)
DisplayName(a) == IF a = "A" THEN "Alice" ELSE "Bob"

ClientInit ==
    /\ closed = [a \in Clients |-> FALSE]
    /\ clientVersion = [a \in Clients |-> ""]
    /\ id = [a \in Clients |-> ""]
    /\ name = [a \in Clients |-> DisplayName(a)]
    /\ peerConnection = [a \in Clients |-> 0]
    /\ peers = [a \in Clients |-> {}]
    /\ reconnectTimer = [a \in Clients |-> 0]
    /\ socket = [a \in Clients |-> 0]
    /\ stream = [a \in Clients |-> FALSE]
    /\ ws = [a \in Clients |-> [k \in Wss |-> "none"]]
    /\ pcs = [a \in Clients |-> [c \in Conns |-> NoPc]]
    /\ tasks = [a \in Clients |-> <<>>]
    /\ sent = <<>>
    /\ emitted = <<>>

\* ========================================================== specifications
Init ==
    /\ RelayInit
    /\ ClientInit
    /\ wire = NoWire
    /\ last = Mark("none", "init", 0, NoFrame)

\* The relay alone, fed every frame a connection can send it
RelayNext ==
    \/ \E s \in Socks : RelayConnection(s) /\ UNCHANGED wire
    \/ \E s \in Socks, client \in Peers : RelayIdentify(s, client) /\ UNCHANGED wire
    \/ RelayCommit /\ UNCHANGED wire
    \/ \E s \in Socks : \E msg \in RoutedFrames(randomUUID(s)) : RelayRoute(s, msg) /\ UNCHANGED wire
    \/ \E s \in Socks : RelayClose(s) /\ UNCHANGED wire

RelaySpec == Init /\ [][RelayNext]_vars

\* The relay routing the frames of its connections. A connection identifies
\* under the id its ready frame gave it, or under a1, the id of another
\* connection; it asks for frames of every routed type to be routed to
\* every id.
RouteIdentities(s) ==
    {[id |-> randomUUID(s), name |-> "Alice"], [id |-> "a1", name |-> "Bob"]}

RouteFrames(source) ==
    {OfferMessage(source, t) : t \in Ids}
        \cup {AcceptMessage(source, t) : t \in Ids}
        \cup {RejectMessage(source, t) : t \in Ids}
        \cup {IceCandidateMessage(source, t, "k1") : t \in Ids}

RouteNext ==
    \/ \E s \in Socks : RelayConnection(s) /\ UNCHANGED wire
    \/ \E s \in Socks : \E client \in RouteIdentities(s) : RelayIdentify(s, client) /\ UNCHANGED wire
    \/ RelayCommit /\ UNCHANGED wire
    \/ \E s \in Socks : \E msg \in RouteFrames(randomUUID(s)) : RelayRoute(s, msg) /\ UNCHANGED wire
    \/ \E s \in Socks : RelayClose(s) /\ UNCHANGED wire

RouteSpec == Init /\ [][RouteNext]_vars

\* One client and its connection to the relay: the stream, the WebSockets,
\* the reconnect timer and the ready handshake
LinkFrames ==
    {ReadyMessage(v, i) : v \in Versions, i \in {"a1", "b1"}}
        \cup {PeerMessage([id |-> "b1", name |-> n], remove) : n \in Names, remove \in BOOLEAN}

LinkNext ==
    \/ OpenStream("A") /\ UNCHANGED wire
    \/ CloseStream("A") /\ UNCHANGED wire
    \/ Close("A") /\ UNCHANGED wire
    \/ \E value \in Names : SetName("A", value) /\ UNCHANGED wire
    \/ \E k \in Wss : SocketOpen("A", k) /\ UNCHANGED wire
    \/ \E k \in Wss : SocketClose("A", k) /\ UNCHANGED wire
    \/ \E k \in Wss, message \in LinkFrames : SocketMessage("A", k, message) /\ UNCHANGED wire
    \/ ReconnectFire("A") /\ UNCHANGED wire

LinkSpec == Init /\ [][LinkNext]_vars

\* One client negotiating sessions. It starts connected and identified as
\* a1, with its stream open and the peers b1 and c1 announced to it: the
\* state OpenStream, SocketOpen and the ready and peer frames lead to.
SessionInit ==
    /\ RelayInit
    /\ closed = [a \in Clients |-> FALSE]
    /\ clientVersion = [a \in Clients |-> IF a = "A" THEN "v1" ELSE ""]
    /\ id = [a \in Clients |-> IF a = "A" THEN "a1" ELSE ""]
    /\ name = [a \in Clients |-> DisplayName(a)]
    /\ peerConnection = [a \in Clients |-> 0]
    /\ peers = [a \in Clients |->
                  IF a = "A" THEN {[id |-> "b1", name |-> "Bob"], [id |-> "c1", name |-> "Bob"]}
                  ELSE {}]
    /\ reconnectTimer = [a \in Clients |-> 0]
    /\ socket = [a \in Clients |-> IF a = "A" THEN 1 ELSE 0]
    /\ stream = [a \in Clients |-> a = "A"]
    /\ ws = [a \in Clients |-> [k \in Wss |-> IF a = "A" /\ k = 1 THEN "open" ELSE "none"]]
    /\ pcs = [a \in Clients |-> [c \in Conns |-> NoPc]]
    /\ tasks = [a \in Clients |-> <<>>]
    /\ sent = <<>>
    /\ emitted = <<>>
    /\ wire = NoWire
    /\ last = Mark("none", "init", 0, NoFrame)

SessionFrames ==
    {OfferMessage(s, "a1") : s \in {"b1", "c1"}}
        \cup {AcceptMessage(s, "a1") : s \in {"b1", "c1"}}
        \cup {RejectMessage(s, "a1") : s \in {"b1", "c1"}}

SessionNext ==
    \/ \E p \in Ids : Invite("A", p) /\ UNCHANGED wire
    \/ \E p \in Ids : Accept("A", p) /\ UNCHANGED wire
    \/ \E p \in Ids : Reject("A", p) /\ UNCHANGED wire
    \/ Disconnect("A") /\ UNCHANGED wire
    \/ CloseStream("A") /\ UNCHANGED wire
    \/ \E c \in Conns : ConnectionStateChange("A", c) /\ UNCHANGED wire
    \/ \E i \in 1..Len(tasks["A"]), ok \in BOOLEAN : Settle("A", i, ok) /\ UNCHANGED wire
    \/ \E k \in Wss, message \in SessionFrames : SocketMessage("A", k, message) /\ UNCHANGED wire

SessionSpec == SessionInit /\ [][SessionNext]_vars

\* The same client, with the messages of its peer's data channel
TeardownNext ==
    \/ SessionNext
    \/ \E c \in Conns, type \in PeerMessageTypes :
          ChannelMessage("A", c, type) /\ UNCHANGED wire

TeardownSpec == SessionInit /\ [][TeardownNext]_vars

\* The same client, with the candidates of its peers arriving
IceFrames ==
    {AcceptMessage("b1", "a1")}
        \cup {IceCandidateMessage(s, "a1", c) : s \in {"b1", "c1"}, c \in Candidates}

IceNext ==
    \/ Invite("A", "b1") /\ UNCHANGED wire
    \/ Accept("A", "b1") /\ UNCHANGED wire
    \/ Disconnect("A") /\ UNCHANGED wire
    \/ \E i \in 1..Len(tasks["A"]), ok \in BOOLEAN : Settle("A", i, ok) /\ UNCHANGED wire
    \/ \E k \in Wss, message \in IceFrames : SocketMessage("A", k, message) /\ UNCHANGED wire

IceSpec == SessionInit /\ [][IceNext]_vars

\* The client as callee, with three candidates of its peer arriving
OrderFrames == {IceCandidateMessage("b1", "a1", c) : c \in {"k1", "k2", "k3"}}

OrderNext ==
    \/ Accept("A", "b1") /\ UNCHANGED wire
    \/ Disconnect("A") /\ UNCHANGED wire
    \/ \E i \in 1..Len(tasks["A"]), ok \in BOOLEAN : Settle("A", i, ok) /\ UNCHANGED wire
    \/ \E k \in Wss, message \in OrderFrames : SocketMessage("A", k, message) /\ UNCHANGED wire

OrderSpec == SessionInit /\ [][OrderNext]_vars

\* ------------------------------------------------ two clients and the relay
\* Alice (client A, relay connection 1, id a1) and Bob (client B, relay
\* connection 2, id b1), each on its first WebSocket.
Other(a) == IF a = "A" THEN "B" ELSE "A"
RelaySock(a) == IF a = "A" THEN 1 ELSE 2
IdOf(a) == randomUUID(RelaySock(a))
PeerOf(a) == [id |-> IdOf(a), name |-> DisplayName(a)]

\* socket.send of a client: the frames the step has sent join those in
\* flight to the relay
Up(w, a) == [w EXCEPT ![a].up = @ \o [i \in 1..Len(sent') |-> sent'[i].frame]]

\* socket.send of the relay: the frames the handler has sent join those in
\* flight to the client of each connection
Down(w) ==
    [a \in Clients |->
        [w[a] EXCEPT !.down =
            @ \o LET mine == SelectSeq(outbox', LAMBDA m : m.to = RelaySock(a))
                 IN [i \in 1..Len(mine) |-> mine[i].frame]]]

\* The page's offer listener (main.ts handleOffer) asks the user with
\* confirm() and calls accept or reject before the event handler returns.
OfferShown == emitted # <<>> /\ emitted[1].event = "offer"

\* Both clients connected, identified and announced to each other, their
\* streams open and no Session: the state that openStream, the ready frames
\* and the identify handlers lead to.
CallInit ==
    /\ rstate = [s \in Socks |-> IF s \in {1, 2} THEN "open" ELSE "none"]
    /\ connections = <<[socket |-> 1, client |-> PeerOf("A")],
                       [socket |-> 2, client |-> PeerOf("B")]>>
    /\ microtasks = <<>>
    /\ outbox = <<>>
    /\ unregistered = {}
    /\ closed = [a \in Clients |-> FALSE]
    /\ clientVersion = [a \in Clients |-> version]
    /\ id = [a \in Clients |-> IdOf(a)]
    /\ name = [a \in Clients |-> DisplayName(a)]
    /\ peerConnection = [a \in Clients |-> 0]
    /\ peers = [a \in Clients |-> {PeerOf(Other(a))}]
    /\ reconnectTimer = [a \in Clients |-> 0]
    /\ socket = [a \in Clients |-> 1]
    /\ stream = [a \in Clients |-> TRUE]
    /\ ws = [a \in Clients |-> [k \in Wss |-> IF k = 1 THEN "open" ELSE "none"]]
    /\ pcs = [a \in Clients |-> [c \in Conns |-> NoPc]]
    /\ tasks = [a \in Clients |-> <<>>]
    /\ sent = <<>>
    /\ emitted = <<>>
    /\ wire = NoWire
    /\ last = Mark("none", "init", 0, NoFrame)

\* Alice invites Bob
CallInvite ==
    /\ ~OfferShown
    /\ Invite("A", IdOf("B"))
    /\ UNCHANGED wire

\* An awaited call of either client settles
CallSettle(a, i, ok) ==
    /\ ~OfferShown
    /\ Settle(a, i, ok)
    /\ wire' = Up(wire, a)

\* The relay receives the next frame of a client: socket.on("message")
CallRoute(a) ==
    /\ ~OfferShown
    /\ wire[a].up # <<>>
    /\ Head(wire[a].up).type # "identify"
    /\ RelayRoute(RelaySock(a), Head(wire[a].up))
    /\ wire' = Down([wire EXCEPT ![a].up = Tail(@)])

\* A client receives the next frame the relay sent it: socket.onmessage
CallReceive(a) ==
    /\ ~OfferShown
    /\ wire[a].down # <<>>
    /\ SocketMessage(a, 1, Head(wire[a].down))
    /\ wire' = Up([wire EXCEPT ![a].down = Tail(@)], a)

\* A transport of either client gathers its candidate
CandidateOf(a) == IF a = "A" THEN "k1" ELSE "k2"

CallIceCandidate(a, c) ==
    /\ ~OfferShown
    /\ IceCandidateEvent(a, c, CandidateOf(a))
    /\ wire' = Up(wire, a)

\* The user shown an offer accepts it
CallAccept ==
    /\ OfferShown
    /\ Accept(last.who, emitted[1].data)
    /\ UNCHANGED wire

\* The user shown an offer rejects it
CallReject ==
    /\ OfferShown
    /\ Reject(last.who, emitted[1].data)
    /\ wire' = Up(wire, last.who)

CallNext ==
    \/ CallInvite
    \/ \E a \in Clients : \E i \in 1..Len(tasks[a]), ok \in BOOLEAN : CallSettle(a, i, ok)
    \/ \E a \in Clients : CallRoute(a)
    \/ \E a \in Clients : CallReceive(a)
    \/ \E a \in Clients, c \in Conns : CallIceCandidate(a, c)
    \/ CallAccept
    \/ CallReject

\* Every pending call settles, every frame in flight arrives, and the user
\* answers the confirm() dialog.
CallFairness ==
    /\ \A a \in Clients :
          WF_vars(\E i \in 1..Len(tasks[a]), ok \in BOOLEAN : CallSettle(a, i, ok))
    /\ \A a \in Clients : WF_vars(CallRoute(a))
    /\ \A a \in Clients : WF_vars(CallReceive(a))
    /\ WF_vars(CallAccept \/ CallReject)

CallSpec == CallInit /\ [][CallNext]_vars /\ CallFairness

\* ------------------------------------------- a relay socket closes mid-call
\* Scenario D: Bob goes away. The relay sees his socket close, and after
\* that the transports between the two report "disconnected" or "failed".
Gone(a) == rstate[RelaySock(a)] = "closed"

DropClose ==
    /\ ~OfferShown
    /\ RelayClose(RelaySock("B"))
    /\ wire' = Down(wire)

DropStateChange(a, c) ==
    /\ Gone("B")
    /\ ~OfferShown
    /\ ConnectionStateChange(a, c)
    /\ UNCHANGED wire

\* Alice starts no new call while the teardown is under way.
DropNext ==
    \/ ~Gone("B") /\ CallInvite
    \/ \E a \in Clients : \E i \in 1..Len(tasks[a]), ok \in BOOLEAN : CallSettle(a, i, ok)
    \/ \E a \in Clients : CallRoute(a)
    \/ \E a \in Clients : CallReceive(a)
    \/ \E a \in Clients, c \in Conns : CallIceCandidate(a, c)
    \/ CallAccept
    \/ CallReject
    \/ DropClose
    \/ \E a \in Clients, c \in Conns : DropStateChange(a, c)

\* Once Bob is gone, Alice's transport to him notices.
DropFairness ==
    /\ CallFairness
    /\ WF_vars(\E c \in Conns : DropStateChange("A", c))

DropSpec == CallInit /\ [][DropNext]_vars /\ DropFairness

\* ----------------------------------------------- two clients join the relay
\* Alice and Bob open their streams and connect; the relay accepts each
\* connection and sends its ready frame; each identifies. Once registered,
\* Bob may change his name, once, and his connection may close.
OtherName(n) == IF n = "Bob" THEN "Alice" ELSE "Bob"

JoinOpen(a) ==
    /\ socket[a] = 0
    /\ ws[a][1] = "none"
    /\ OpenStream(a)
    /\ UNCHANGED wire

JoinAccept(a) ==
    /\ ws[a][1] = "connecting"
    /\ RelayConnection(RelaySock(a))
    /\ wire' = Down(wire)

JoinSocketOpen(a) ==
    /\ rstate[RelaySock(a)] = "open"
    /\ SocketOpen(a, 1)
    /\ UNCHANGED wire

JoinIdentify(a) ==
    /\ wire[a].up # <<>>
    /\ Head(wire[a].up).type = "identify"
    /\ RelayIdentify(RelaySock(a), Head(wire[a].up).data)
    /\ wire' = Down([wire EXCEPT ![a].up = Tail(@)])

JoinCommit ==
    /\ RelayCommit
    /\ UNCHANGED wire

JoinRename ==
    /\ connectionsHas(RelaySock("B"))
    /\ name["B"] = DisplayName("B")
    /\ SetName("B", OtherName(name["B"]))
    /\ wire' = Up(wire, "B")

JoinLeave ==
    /\ RelayClose(RelaySock("B"))
    /\ wire' = Down(wire)

JoinNext ==
    \/ \E a \in Clients : JoinOpen(a)
    \/ \E a \in Clients : JoinAccept(a)
    \/ \E a \in Clients : JoinSocketOpen(a)
    \/ \E a \in Clients : CallReceive(a)
    \/ \E a \in Clients : JoinIdentify(a)
    \/ JoinCommit
    \/ JoinRename
    \/ JoinLeave

JoinSpec == Init /\ [][JoinNext]_vars

\* Alice joining a relay where Bob is registered, losing her connection and
\* joining again through the reconnect timer. Her k-th WebSocket is the
\* relay's connection LinkSock(k), Bob's is RelaySock("B"); the frames in
\* flight are those of her current connection, those of a connection that
\* has closed are lost.
LinkSock(k) == IF k = 1 THEN 1 ELSE k + 1

Linked(k) == LinkSock(k) \in Socks

RejoinDown(w) ==
    [w EXCEPT !["A"].down =
        @ \o LET mine == SelectSeq(outbox', LAMBDA m :
                             \E k \in Wss : /\ m.to = LinkSock(k)
                                            /\ ws["A"][k] \in {"connecting", "open"})
             IN [i \in 1..Len(mine) |-> mine[i].frame]]

RejoinInit ==
    /\ rstate = [s \in Socks |-> IF s = RelaySock("B") THEN "open" ELSE "none"]
    /\ connections = <<[socket |-> RelaySock("B"), client |-> PeerOf("B")]>>
    /\ microtasks = <<>>
    /\ outbox = <<>>
    /\ unregistered = {}
    /\ ClientInit
    /\ wire = NoWire
    /\ last = Mark("none", "init", 0, NoFrame)

RejoinOpen ==
    /\ socket["A"] = 0
    /\ ws["A"][1] = "none"
    /\ OpenStream("A")
    /\ UNCHANGED wire

\* the relay accepts Alice's connection, after it has seen her last one close
RejoinAccept(k) ==
    /\ Linked(k)
    /\ ws["A"][k] = "connecting"
    /\ \A j \in 1..(k - 1) : rstate[LinkSock(j)] # "open"
    /\ RelayConnection(LinkSock(k))
    /\ wire' = RejoinDown(wire)

RejoinSocketOpen(k) ==
    /\ Linked(k)
    /\ rstate[LinkSock(k)] = "open"
    /\ SocketOpen("A", k)
    /\ UNCHANGED wire

RejoinReceive(k) ==
    /\ wire["A"].down # <<>>
    /\ SocketMessage("A", k, Head(wire["A"].down))
    /\ wire' = Up([wire EXCEPT !["A"].down = Tail(@)], "A")

RejoinRename ==
    /\ name["A"] = DisplayName("A")
    /\ SetName("A", OtherName(name["A"]))
    /\ wire' = Up(wire, "A")

RejoinIdentify(k) ==
    /\ Linked(k)
    /\ wire["A"].up # <<>>
    /\ Head(wire["A"].up).type = "identify"
    /\ RelayIdentify(LinkSock(k), Head(wire["A"].up).data)
    /\ wire' = RejoinDown([wire EXCEPT !["A"].up = Tail(@)])

RejoinCommit ==
    /\ RelayCommit
    /\ UNCHANGED wire

\* Alice's connection is lost: the relay sees it close
RejoinGone(k) ==
    /\ Linked(k)
    /\ RelayClose(LinkSock(k))
    /\ wire' = [wire EXCEPT !["A"].up = <<>>]

\* Alice's connection is lost or fails: her WebSocket closes
RejoinLost(k) ==
    /\ SocketClose("A", k)
    /\ wire' = [wire EXCEPT !["A"].down = <<>>]

RejoinFire ==
    /\ ReconnectFire("A")
    /\ UNCHANGED wire

\* Bob leaves
RejoinLeave ==
    /\ RelayClose(RelaySock("B"))
    /\ wire' = RejoinDown(wire)

RejoinNext ==
    \/ RejoinOpen
    \/ \E k \in Wss : RejoinAccept(k)
    \/ \E k \in Wss : RejoinSocketOpen(k)
    \/ \E k \in Wss : RejoinReceive(k)
    \/ RejoinRename
    \/ \E k \in Wss : RejoinIdentify(k)
    \/ RejoinCommit
    \/ \E k \in Wss : RejoinGone(k)
    \/ \E k \in Wss : RejoinLost(k)
    \/ RejoinFire
    \/ RejoinLeave

RejoinSpec == RejoinInit /\ [][RejoinNext]_vars

\* ================================================================== claims
Range(seq) == {seq[i] : i \in 1..Len(seq)}
ToSocket(s) == SelectSeq(outbox, LAMBDA m : m.to = s)
NewIdentify == last.who = "relay" /\ last.op = "identify" /\ ~connectionsHas(last.sock)

OpenTransports(a) == {c \in Conns : pcs[a][c].state = "open"}
Session(a) == pcs[a][peerConnection[a]]
FrameStep(mark, type) == mark.who = "A" /\ mark.op = "message" /\ mark.frame.type = type

\* C1: a client holds at most one Session at any time: the only open
\* transport is the one #peerConnection refers to, and no step replaces a
\* live Session by another one.
C1_AtMostOneSession ==
    /\ [](\A a \in Clients :
            /\ OpenTransports(a) \subseteq {peerConnection[a]}
            /\ Cardinality(OpenTransports(a)) <= 1
            /\ peerConnection[a] # 0 => Session(a).state = "open")
    /\ [][\A a \in Clients :
            (peerConnection[a] # 0 /\ peerConnection'[a] # 0)
                => /\ peerConnection'[a] = peerConnection[a]
                   /\ pcs'[a][peerConnection[a]].peer = Session(a).peer]_vars

\* C1 witness: a second Session has been created while a function suspended
\* on the closed transport of the first is still pending.
C1_Witness ==
    /\ last.op \in {"invite", "accept"}
    /\ peerConnection["A"] = 2
    /\ pcs["A"][1].state = "closed"
    /\ pcs["A"][2].state = "open"

\* C5 (as stated): once the accept frame of the invited peer has set the
\* remote description, a further accept frame of that peer causes no
\* setRemoteDescription call and starts no other drain.
C5_FurtherAcceptIsInert ==
    [][(/\ FrameStep(last', "accept")
        /\ peerConnection["A"] # 0
        /\ Session("A").peer.id = last'.frame.data.source
        /\ Session("A").localDescription = "offer"
        /\ Session("A").remoteDescription)
           => (pcs' = pcs /\ tasks' = tasks)]_vars

\* C6: invite() and accept() called without a stream or while a Session
\* exists leave the Session, the transports and the suspended functions as
\* they were, and send nothing.
C6_RefusedCallHasNoEffect ==
    [][(/\ last'.who = "A"
        /\ last'.op \in {"invite", "accept"}
        /\ (~stream["A"] \/ peerConnection["A"] # 0))
           => (/\ peerConnection' = peerConnection
               /\ pcs' = pcs
               /\ tasks' = tasks
               /\ sent' = <<>>
               /\ emitted' = <<>>)]_vars

\* C6 witness: accept() of an offer of c1 was just refused while the
\* Session with b1, created by invite, is live.
C6_Witness ==
    /\ last.op = "accept"
    /\ last.frame.data.source = "c1"
    /\ peerConnection["A"] # 0
    /\ Session("A").peer.id = "b1"
    /\ Session("A").srd = 0
    /\ Len(tasks["A"]) = 1

\* C7 (as stated): an accept or reject frame whose source is not the peer
\* of the current Session changes nothing of the Session, closes no
\* transport and emits nothing.
C7_MismatchedFrameIgnored ==
    [][(/\ FrameStep(last', "accept") \/ FrameStep(last', "reject")
        /\ peerConnection["A"] # 0
        /\ Session("A").peer.id # last'.frame.data.source)
           => (/\ peerConnection' = peerConnection
               /\ pcs' = pcs
               /\ emitted' = <<>>)]_vars

\* C8: the candidates of an open transport that were queued (they arrived
\* before its remote description was set) are given to addIceCandidate in
\* the order they arrived, ahead of those still queued, and once the remote
\* description is set and the loop draining the queue has ended, the queue
\* is empty.
WasQueued(pc, candidate) ==
    \/ \E i \in 1..Len(pc.iceCandidates) : pc.iceCandidates[i] = candidate
    \/ \E i \in 1..Len(pc.added) : pc.added[i].candidate = candidate /\ pc.added[i].queued
AppliedFromQueue(pc) ==
    LET q == SelectSeq(pc.added, LAMBDA e : e.queued)
    IN [i \in 1..Len(q) |-> q[i].candidate]
C8_QueuedCandidatesAppliedInOrder ==
    \A c \in Conns :
        LET pc == pcs["A"][c]
        IN pc.state = "open" =>
            /\ AppliedFromQueue(pc) \o pc.iceCandidates
                   = SelectSeq(pc.arrived, LAMBDA k : WasQueued(pc, k))
            /\ (pc.remoteDescription /\ pc.iceCandidates # <<>>)
                   => \E i \in 1..Len(tasks["A"]) :
                          tasks["A"][i].conn = c /\ tasks["A"][i].at = "drain"

\* C8 witness: two candidates were queued, the remote description is set,
\* both were applied and the queue is empty.
C8_Witness ==
    /\ peerConnection["A"] # 0
    /\ Session("A").remoteDescription
    /\ Len(AppliedFromQueue(Session("A"))) = 2
    /\ Session("A").iceCandidates = <<>>
    /\ tasks["A"] = <<>>

\* C9: an icecandidate frame that arrives while no Session exists, or whose
\* id is not the id of the Session's peer, is neither applied nor queued and
\* changes nothing of the Session.
C9_ForeignCandidateDropped ==
    [][(/\ FrameStep(last', "icecandidate")
        /\ (peerConnection["A"] = 0 \/ Session("A").peer.id # last'.frame.data.id))
           => (/\ peerConnection' = peerConnection
               /\ pcs' = pcs
               /\ tasks' = tasks
               /\ sent' = <<>>)]_vars

\* C9 witness: a candidate of c1 has just been dropped while the Session
\* with b1 holds a queued candidate.
C9_Witness ==
    /\ FrameStep(last, "icecandidate")
    /\ last.frame.data.id = "c1"
    /\ peerConnection["A"] # 0
    /\ Session("A").peer.id = "b1"
    /\ Len(Session("A").iceCandidates) = 1
    /\ Session("A").iceCandidates[1] # last.frame.data.candidate

\* C10 (as stated): a ready frame whose version differs from the cached
\* one resets the client and sends nothing; any other ready frame makes the
\* client take the frame's id and send exactly one identify with that id
\* and its display name.
C10_ReadyIdentifiesOnce ==
    [][FrameStep(last', "ready") =>
          IF clientVersion["A"] # "" /\ clientVersion["A"] # last'.frame.version
          THEN /\ sent' = <<>>
               /\ clientVersion'["A"] = ""
               /\ id'["A"] = ""
               /\ socket'["A"] = 0
          ELSE /\ clientVersion'["A"] = last'.frame.version
               /\ id'["A"] = last'.frame.id
               /\ sent' = <<[sock |-> last'.sock,
                             frame |-> [type |-> "identify",
                                        data |-> [id |-> last'.frame.id,
                                                  name |-> name["A"]]]]>>]_vars

\* ------------------------------------------------------------ C11 .. C20
\* C11: a routed (non-identify) frame is sent, as received, to the
\* connection of the first registry entry whose id is the frame's target and
\* to no other connection; when no entry has that id nothing is sent at
\* all; the registry is unchanged either way.
C11_RoutedToTargetOnly ==
    [][(last'.who = "relay" /\ last'.op = "route") =>
        LET target == last'.frame.data.target
            holders == {i \in 1..Len(connections) : connections[i].client.id = target}
        IN /\ connections' = connections
           /\ IF holders = {}
              THEN outbox' = <<>>
              ELSE LET first == CHOOSE i \in holders : \A j \in holders : i <= j
                   IN outbox' = <<[to |-> connections[first].socket,
                                   frame |-> last'.frame]>>]_vars

\* C11 witness: an icecandidate frame was forwarded to another connection
\* while a third connection is registered too.
C11_Witness ==
    /\ last.who = "relay"
    /\ last.op = "route"
    /\ last.frame.type = "icecandidate"
    /\ Len(connections) = 3
    /\ Len(outbox) = 1
    /\ outbox[1].to # last.sock
    /\ outbox[1].frame = last.frame

Pending(a, fn) == \E i \in DOMAIN tasks[a] : tasks[a][i].fn = fn

CallFailed == last.op = "settle" /\ ~last.frame.data.ok
Connected(a, p) ==
    /\ peerConnection[a] # 0
    /\ Session(a).peer.id = p
    /\ Session(a).remoteDescription

\* C12: Scenario B. The offer frame Bob receives is offer{source a1, target
\* b1} and is surfaced as an offer event; the accept frame Alice receives is
\* accept{source b1, target a1} and finds her Session with b1; and, unless a
\* call on a transport rejects, Alice's invite leads to Bob being shown the
\* offer and Bob's accept leads to Alice Connected to b1 with Bob holding a
\* Session with a1.
C12_InviteAcceptConnects ==
    /\ []((last.who = "B" /\ last.op = "message" /\ last.frame.type = "offer")
            => /\ last.frame = [type |-> "offer",
                                data |-> [source |-> "a1", target |-> "b1"]]
               /\ emitted = <<[event |-> "offer", data |-> "a1"]>>)
    /\ []((last.who = "A" /\ last.op = "message" /\ last.frame.type = "accept")
            => /\ last.frame = [type |-> "accept",
                                data |-> [source |-> "b1", target |-> "a1"]]
               /\ peerConnection["A"] # 0
               /\ Session("A").peer.id = "b1"
               /\ Session("A").srd = 1)
    /\ (last.who = "A" /\ last.op = "invite" /\ Pending("A", "invite"))
          ~> ((last.who = "B" /\ OfferShown /\ emitted[1].data = "a1") \/ CallFailed)
    /\ (last.who = "B" /\ last.op = "accept" /\ Pending("B", "accept"))
          ~> ((/\ Connected("A", "b1")
               /\ peerConnection["B"] # 0
               /\ Session("B").peer.id = "a1") \/ CallFailed)

\* C12 witness: both are Connected to each other, nothing is pending or in
\* flight, and Alice has applied Bob's candidate.
C12_Witness ==
    /\ Connected("A", "b1")
    /\ Connected("B", "a1")
    /\ Session("A").localDescription = "offer"
    /\ Session("B").localDescription = "answer"
    /\ Session("A").added # <<>>
    /\ tasks = [a \in Clients |-> <<>>]
    /\ wire = NoWire

\* C13: Scenario C. Bob's reject sends exactly reject{source b1, target a1}
\* and leaves his session state as it was; every reject frame Alice receives
\* is that frame and leaves her without a Session, with a disconnect
\* notification naming b1 if she had one, and able to invite b1 again; and
\* Bob's reject of Alice's pending offer leads to Alice receiving it.
C13_RejectReturnsToIdle ==
    /\ [][(last'.who = "B" /\ last'.op = "reject")
            => /\ sent' = <<[sock |-> socket["B"],
                             frame |-> [type |-> "reject",
                                        data |-> [source |-> "b1", target |-> "a1"]]]>>
               /\ peerConnection'["B"] = peerConnection["B"]
               /\ pcs'["B"] = pcs["B"]
               /\ tasks'["B"] = tasks["B"]]_vars
    /\ [][(last'.who = "A" /\ last'.op = "message" /\ last'.frame.type = "reject")
            => /\ last'.frame.data = [source |-> "b1", target |-> "a1"]
               /\ peerConnection'["A"] = 0
               /\ peerConnection["A"] # 0
                    => /\ pcs'["A"][peerConnection["A"]].state \in {"closed", "none"}
                       /\ emitted' = <<[event |-> "peerdisconnected", data |-> "b1"]>>
               /\ stream'["A"]
               /\ \E p \in peers'["A"] : p.id = "b1"
               /\ \E c \in Conns : pcs'["A"][c].state = "none"]_vars
    /\ (last.who = "B" /\ last.op = "reject" /\ peerConnection["A"] # 0)
          ~> (last.who = "A" /\ last.op = "message" /\ last.frame.type = "reject"
              /\ peerConnection["A"] = 0)

\* C13 witness: Alice, Offering to b1, has just received Bob's reject and is
\* Idle, told of the disconnect, while Bob has no Session.
C13_Witness ==
    /\ last.who = "A" /\ last.op = "message" /\ last.frame.type = "reject"
    /\ emitted = <<[event |-> "peerdisconnected", data |-> "b1"]>>
    /\ peerConnection = [a \in Clients |-> 0]
    /\ wire = NoWire

\* C14: Scenario D. When Bob's relay socket closes, the relay drops b1 from
\* its registry and sends Alice exactly peer{id b1, remove true}. Alice's
\* Session ends only in a step of hers that emits one disconnect notification
\* naming b1, such a notification is emitted only by a step that ends her
\* Session, and no Session follows once Bob is gone: so one notification,
\* whichever signal she handles first. From Connected she ends, for good,
\* without a Session and without b1 in her peer set.
C14_DropConverges ==
    /\ [][(last'.who = "relay" /\ last'.op = "close" /\ last'.sock = 2)
            => /\ \A i \in 1..Len(connections') : connections'[i].client.id # "b1"
               /\ outbox' = <<[to |-> 1,
                               frame |-> [type |-> "peer",
                                          data |-> [id |-> "b1", name |-> "Bob",
                                                    remove |-> TRUE]]]>>]_vars
    /\ [][(peerConnection["A"] # 0 /\ peerConnection'["A"] = 0)
            => /\ last'.who = "A"
               /\ emitted' = <<[event |-> "peerdisconnected", data |-> "b1"]>>]_vars
    /\ [][(last'.who = "A" /\ \E i \in 1..Len(emitted') :
                                  emitted'[i].event = "peerdisconnected")
            => /\ Len(emitted') = 1
               /\ peerConnection["A"] # 0
               /\ peerConnection'["A"] = 0]_vars
    /\ [][(rstate[2] = "closed" /\ peerConnection["A"] = 0)
            => peerConnection'["A"] = 0]_vars
    /\ (rstate[2] = "closed" /\ last.op = "close" /\ Connected("A", "b1"))
          ~> [](peerConnection["A"] = 0 /\ \A p \in peers["A"] : p.id # "b1")

\* C14 witness: Bob's socket closed while both were Connected; Alice handled
\* the peer removal first and her transport's failure second.
C14_Witness ==
    /\ rstate[2] = "closed"
    /\ last.who = "A" /\ last.op = "connectionstatechange"
    /\ emitted = <<[event |-> "peerdisconnected", data |-> "b1"]>>
    /\ peerConnection["A"] = 0
    /\ peers["A"] = {}
    /\ Connected("B", "a1")

\* C15: a teardown trigger (the transport's state becoming disconnected or
\* failed, the peer's disconnect message, or disconnect()) met by a Session
\* closes its transport, emits exactly one disconnect notification naming
\* the Session's peer and leaves no Session and no open transport; met by no
\* Session, as a repeated trigger is, it emits nothing and changes nothing.
TeardownTrigger(m) ==
    /\ m.who = "A"
    /\ \/ m.op \in {"connectionstatechange", "disconnect"}
       \/ m.op = "peermessage" /\ m.frame.type = "disconnect"

C15_TeardownNotifiesOnce ==
    [][TeardownTrigger(last')
        => IF peerConnection["A"] # 0
           THEN /\ pcs'["A"][peerConnection["A"]].state \in {"closed", "none"}
                /\ \A c \in Conns : pcs'["A"][c].state # "open"
                /\ peerConnection'["A"] = 0
                /\ emitted' = <<[event |-> "peerdisconnected",
                                 data |-> pcs["A"][peerConnection["A"]].peer.id]>>
           ELSE /\ emitted' = <<>>
                /\ peerConnection'["A"] = 0
                /\ pcs' = pcs]_vars

\* C15 witness: the peer's disconnect message has just ended the Session
\* with b1, a call on the closed transport being still pending.
C15_Witness ==
    /\ last.who = "A" /\ last.op = "peermessage" /\ last.frame.type = "disconnect"
    /\ emitted = <<[event |-> "peerdisconnected", data |-> "b1"]>>
    /\ peerConnection["A"] = 0
    /\ \E c \in Conns : pcs["A"][c].state = "closed"

\* C16 (as stated): the calls awaited on one transport (createOffer,
\* createAnswer, setLocalDescription, setRemoteDescription, addIceCandidate)
\* are never two in flight at once: no two suspended functions wait on the
\* same transport, and a frame's candidate is handed to addIceCandidate only
\* when no call on that transport is pending.
C16_CallsAreSequenced ==
    /\ [](\A i, j \in 1..Len(tasks["A"]) :
            i # j => tasks["A"][i].conn # tasks["A"][j].conn)
    /\ [][(/\ last'.who = "A" /\ last'.op = "message"
           /\ last'.frame.type = "icecandidate"
           /\ peerConnection["A"] # 0
           /\ Session("A").added # pcs'["A"][peerConnection["A"]].added)
            => \A i \in 1..Len(tasks["A"]) : tasks["A"][i].conn # peerConnection["A"]]_vars

\* C17: the only transport that is open is the one of the present Session,
\* and every connection-state change or peer-channel message the client
\* handles was raised by that transport: none raised by the transport of a
\* Session closed earlier ends, or notifies for, a Session created after it.
TransportEvent(m) == m.who = "A" /\ m.op \in {"connectionstatechange", "peermessage"}

C18_CloseDiscardsQueue ==
    [][\A c \in Conns :
          (/\ pcs["A"][c].iceCandidates # <<>>
           /\ pcs'["A"][c].state # "none"
           /\ Len(pcs'["A"][c].iceCandidates) < Len(pcs["A"][c].iceCandidates))
            => pcs["A"][c].state = "open"]_vars

\* C19 (as stated): the queue of a Session is drained in one pass, begun by
\* the step that sets the remote description: a pass begins only when no
\* queued candidate of that transport has been applied yet; a rejected
\* addIceCandidate is followed by the next queued candidate; and when a pass
\* ends the queue is empty.
DrainStep(m) ==
    /\ m.who = "A" /\ m.op = "settle"
    /\ \/ m.frame.data.at = "drain"
       \/ m.frame.data.at = "setRemoteDescription" /\ m.frame.data.ok

C19_DrainedInOnePass ==
    /\ [][(/\ DrainStep(last')
           /\ last'.frame.data.at = "setRemoteDescription"
           /\ pcs["A"][last'.sock].iceCandidates # <<>>)
            => \A i \in 1..Len(pcs["A"][last'.sock].added) :
                  ~pcs["A"][last'.sock].added[i].queued]_vars
    /\ [][(/\ DrainStep(last')
           /\ pcs["A"][last'.sock].state = "open"
           /\ pcs["A"][last'.sock].iceCandidates # <<>>)
            => /\ pcs'["A"][last'.sock].iceCandidates = Tail(pcs["A"][last'.sock].iceCandidates)
               /\ pcs'["A"][last'.sock].added =
                     Append(pcs["A"][last'.sock].added,
                            [candidate |-> Head(pcs["A"][last'.sock].iceCandidates),
                             queued |-> TRUE])]_vars
    /\ [][(/\ DrainStep(last')
           /\ pcs["A"][last'.sock].state = "open"
           /\ \A i \in 1..Len(tasks'["A"]) :
                 ~(tasks'["A"][i].conn = last'.sock /\ tasks'["A"][i].at = "drain"))
            => pcs'["A"][last'.sock].iceCandidates = <<>>]_vars

\* C20: a WebSocket closing while the stream is open and the client is not
\* shut down leaves exactly one reconnect timeout pending; one closing with
\* the stream closed or after close() schedules none; at no time is more than
\* one timeout pending, and none is pending after close().
C20_OneReconnectTimer ==
    /\ [](reconnectTimer["A"] <= 1)
    /\ [](closed["A"] => reconnectTimer["A"] = 0)
    /\ [][(last'.who = "A" /\ last'.op = "socketclose")
            => reconnectTimer'["A"] = IF ~closed["A"] /\ stream["A"]
                                      THEN 1
                                      ELSE reconnectTimer["A"]]_vars

\* C20 witness: a second WebSocket has closed with the stream open, and one
\* timeout is pending.
C20_Witness ==
    /\ last.who = "A" /\ last.op = "socketclose"
    /\ stream["A"] /\ ~closed["A"]
    /\ reconnectTimer["A"] = 1
    /\ \E j, k \in Wss : j # k /\ ws["A"][j] = "closed" /\ ws["A"][k] = "closed"

C22_CloseCancelsReconnect ==
    /\ [][(last'.who = "A" /\ last'.op = "close")
            => closed'["A"] /\ reconnectTimer'["A"] = 0]_vars
    /\ [][(closed["A"] /\ last'.who = "A")
            => /\ last'.op # "timeout"
               /\ reconnectTimer'["A"] = 0]_vars

\* C22 witness: the WebSocket that close() closed has had its close event,
\* and no timeout is pending.
C22_Witness ==
    /\ closed["A"]
    /\ last.who = "A" /\ last.op = "socketclose"
    /\ reconnectTimer["A"] = 0
    /\ socket["A"] = 0
    /\ \A k \in Wss : ws["A"][k] \in {"closed", "none"}

\* C23: the registry holds at most one record for a connection and only
\* connections that are open; it changes only when an identify is stored,
\* which adds one entry for a connection that has none and replaces the
\* entry in place for one that has, and when a close is handled, which
\* removes the entry of that connection; a closed connection has no entry.
C23_RegistryOfLiveConnections ==
    /\ [](\A i, j \in 1..Len(connections) :
            connections[i].socket = connections[j].socket => i = j)
    /\ [](\A i \in 1..Len(connections) : rstate[connections[i].socket] = "open")
    /\ [][connections' # connections =>
            LET s == last'.sock
                record == [socket |-> s, client |-> last'.frame.data]
                held == {i \in 1..Len(connections) : connections[i].socket = s}
            IN \/ /\ last'.op = "commit"
                  /\ held = {}
                  /\ connections' = Append(connections, record)
               \/ /\ last'.op = "commit"
                  /\ held # {}
                  /\ connections' = [i \in 1..Len(connections) |->
                                        IF i \in held THEN record ELSE connections[i]]
               \/ /\ last'.op = "close"
                  /\ held # {}
                  /\ connections' = SelectSeq(connections, LAMBDA e : e.socket # s)]_vars

\* C23 witness: a connection that was registered has identified again, its
\* record being replaced where it stood, first of two.
C23_Witness ==
    /\ last.who = "relay" /\ last.op = "commit"
    /\ Len(connections) = 2
    /\ connections[1].socket = last.sock
    /\ connections[1].client = last.frame.data
    /\ \E s \in Socks : rstate[s] = "closed"

\* A registered connection has just sent identify with its stored id and
\* another name; its record is not yet replaced.
Rename ==
    /\ last.who = "relay" /\ last.op = "identify"
    /\ \E i \in 1..Len(connections) :
          /\ connections[i].socket = last.sock
          /\ connections[i].client.id = last.frame.data.id
          /\ connections[i].client.name # last.frame.data.name

\* The step that stores the record of a registered connection replaces it
\* where it stands.
ReplacedInPlace ==
    [][(last'.op = "commit"
          /\ \E i \in 1..Len(connections) : connections[i].socket = last'.sock)
        => connections' = [i \in 1..Len(connections) |->
                             IF connections[i].socket = last'.sock
                             THEN [socket |-> last'.sock, client |-> last'.frame.data]
                             ELSE connections[i]]]_vars

Quiet(a) ==
    /\ microtasks = <<>>
    /\ wire[a].down = <<>>
    /\ \A b \in Clients : wire[b].up = <<>> \/ rstate[RelaySock(b)] = "closed"

RegisteredOthers(a) ==
    {connections[i].client : i \in {j \in 1..Len(connections) :
                                       connections[j].socket # RelaySock(a)}}

\* C25: a peer frame without remove puts its record in the peer set in place
\* of any record of that id and emits peeradded if the id was unknown,
\* peerupdated otherwise; one with remove deletes that id. So a client that
\* is registered and has nothing in flight holds exactly the records
\* registered for the other connections, never its own id; with Alice and
\* Bob registered in that order Alice holds {b1: Bob} and Bob {a1: Alice}.
C25_PeerSetIsFoldOfFrames ==
    /\ [][\A a \in Clients :
            (last'.who = a /\ last'.op = "message" /\ last'.frame.type = "peer")
            => LET d == last'.frame.data
                   others == {q \in peers[a] : q.id # d.id}
               IN IF d.remove
                  THEN /\ peers'[a] = others
                       /\ emitted' = <<[event |-> "peerremoved", data |-> d.id]>>
                  ELSE /\ peers'[a] = others \cup {[id |-> d.id, name |-> d.name]}
                       /\ emitted' = <<[event |-> IF others = peers[a] THEN "peeradded"
                                                                       ELSE "peerupdated",
                                        data |-> d.id]>>]_vars
    /\ [](\A a \in Clients :
            (Quiet(a) /\ \E i \in 1..Len(connections) : connections[i].socket = RelaySock(a))
            => /\ peers[a] = RegisteredOthers(a)
               /\ \A p \in peers[a] : p.id # id[a])
    /\ []((/\ Quiet("A") /\ Quiet("B")
           /\ connections = <<[socket |-> 1, client |-> [id |-> "a1", name |-> "Alice"]],
                              [socket |-> 2, client |-> [id |-> "b1", name |-> "Bob"]]>>)
            => /\ peers["A"] = {[id |-> "b1", name |-> "Bob"]}
               /\ peers["B"] = {[id |-> "a1", name |-> "Alice"]})

\* C25 witness: Alice and Bob have connected and identified in that order
\* and every frame has been delivered.
C25_Witness ==
    /\ Quiet("A") /\ Quiet("B")
    /\ connections = <<[socket |-> 1, client |-> [id |-> "a1", name |-> "Alice"]],
                       [socket |-> 2, client |-> [id |-> "b1", name |-> "Bob"]]>>
    /\ peers["A"] = {[id |-> "b1", name |-> "Bob"]}
    /\ peers["B"] = {[id |-> "a1", name |-> "Alice"]}
    /\ last.who = "A" /\ last.op = "message" /\ last.frame.type = "peer"

\* C26: the step that accepts a connection sends it one frame, ready, with
\* the relay's version and an id given to no other connection; no other step
\* sends a ready frame; and every other frame goes to a connection that was
\* accepted, and so sent its ready frame, before.
C26_ReadyFirstAndOnce ==
    /\ [][last'.op = "connection"
            => /\ rstate[last'.sock] = "none"
               /\ outbox' = <<[to |-> last'.sock,
                               frame |-> [type |-> "ready", version |-> "v1",
                                          id |-> UuidPool[last'.sock]]]>>
               /\ \A t \in Socks \ {last'.sock} : UuidPool[t] # UuidPool[last'.sock]]_vars
    /\ [][last'.op # "connection"
            => \A i \in 1..Len(outbox') :
                  /\ outbox'[i].frame.type # "ready"
                  /\ rstate[outbox'[i].to] = "open"]_vars

\* C26 witness: the second connection has just been accepted, the first
\* being registered, and is sent ready with b1.
C26_Witness ==
    /\ last.who = "relay" /\ last.op = "connection" /\ last.sock = 2
    /\ outbox = <<[to |-> 2, frame |-> [type |-> "ready", version |-> "v1", id |-> "b1"]]>>
    /\ Len(connections) = 1

\* C27 (as stated): the candidates handed to addIceCandidate of an open
\* transport are handed over in the order they arrived.
C27_AppliedInArrivalOrder ==
    \A c \in Conns :
        LET pc == pcs["A"][c]
            applied == [i \in 1..Len(pc.added) |-> pc.added[i].candidate]
        IN pc.state = "open" =>
              applied = SelectSeq(pc.arrived,
                                  LAMBDA k : \E i \in 1..Len(applied) : applied[i] = k)

\* C28 (as stated): the client has at most one relay connection that is
\* connecting or open, and the close event of a socket other than the one
\* #socket designates neither changes #socket nor schedules a reconnection.
C28_OneConnectionNewestKept ==
    [][/\ Cardinality({k \in Wss : ws'["A"][k] \in {"connecting", "open"}}) <= 1
       /\ (last'.who = "A" /\ last'.op = "socketclose" /\ socket["A"] # 0
              /\ last'.sock # socket["A"])
             => /\ socket'["A"] = socket["A"]
                /\ reconnectTimer'["A"] = reconnectTimer["A"]]_vars

\* C29 (as stated): every identify frame Alice sends carries the id the
\* relay assigned, in its ready frame, to the connection the frame is sent
\* on.
C29_IdentifyCarriesAssignedId ==
    \A i \in 1..Len(sent) :
        sent[i].frame.type = "identify"
            => sent[i].frame.data.id = UuidPool[LinkSock(sent[i].sock)]

\* Alice, who never changed her name, has reconnected, the relay has
\* registered her new connection and nothing is in flight or suspended
Rejoined(k) ==
    /\ k > 1
    /\ name["A"] = "Alice"
    /\ socket["A"] = k
    /\ ws["A"][k] = "open"
    /\ \E i \in 1..Len(connections) : connections[i].socket = LinkSock(k)
    /\ microtasks = <<>>
    /\ wire["A"].up = <<>>
    /\ wire["A"].down = <<>>

\* C30 (as stated, for a client whose only identify frames are those of
\* its ready handler): once Alice has reconnected and identified and every
\* frame is delivered, her peer set is the set of records the relay holds
\* for the other connections.
C30_PeerSetMatchesRegistryAfterReconnect ==
    \A k \in Wss :
        Rejoined(k) =>
            peers["A"] = {connections[i].client :
                             i \in {j \in 1..Len(connections) :
                                       connections[j].socket # LinkSock(k)}}

====
